---- MODULE Spec2Model ----
(***************************************************************************)
(* A model of pypiserver/core.py: the version key builder, the filename    *)
(* guesser, the directory scanner, the PkgFile hash-fragment memo and the  *)
(* listdir / digest_file facade.                                           *)
(*                                                                         *)
(* Python strings are modelled as sequences of one-character strings, so   *)
(* that slicing, suffix tests and regular-expression matching are computed *)
(* rather than assumed.                                                    *)
(***************************************************************************)
EXTENDS Integers, Sequences, FiniteSets, TLC

VARIABLES
    \* --- version key builder (parse_version) ---
    vPrefix, vMarker, vNum, vKeyPlain, vKeyMarked, vKeyZero,
    \* --- filename guesser (guess_pkgname_and_version) ---
    gName, gPlain, gAsc,
    \* --- PkgFile.fname_and_hash ---
    hSep, hSegs, hPkg, hMemo, hContent, hDigestCalls, hCalls, hLastAlgo, hLastRet,
    hLastOutcome,
    \* --- _listdir ---
    sRootOk, sFiles, sIrregular, sStack, sEntered, sRecords, sStatus,
    \* --- listdir / digest_file facade ---
    cCache, cKey, cPc, cResult, cInvocations, cStore, cInflight

verVars   == <<vPrefix, vMarker, vNum, vKeyPlain, vKeyMarked, vKeyZero>>
guessVars == <<gName, gPlain, gAsc>>
hashVars  == <<hSep, hSegs, hPkg, hMemo, hContent, hDigestCalls, hCalls, hLastAlgo,
               hLastRet, hLastOutcome>>
scanVars  == <<sRootOk, sFiles, sIrregular, sStack, sEntered, sRecords, sStatus>>
cacheVars == <<cCache, cKey, cPc, cResult, cInvocations, cStore, cInflight>>
vars      == <<verVars, guessVars, hashVars, scanVars, cacheVars>>

\* Python's None.
None == "None"

-----------------------------------------------------------------------------
(* Characters and strings                                                  *)

Digits == {"0", "1", "2", "3", "4", "5", "6", "7", "8", "9"}
UpperSeq == <<"A", "B", "C", "D", "E", "F", "G", "H", "I", "J", "K", "L", "M",
              "N", "O", "P", "Q", "R", "S", "T", "U", "V", "W", "X", "Y", "Z">>
LowerSeq == <<"a", "b", "c", "d", "e", "f", "g", "h", "i", "j", "k", "l", "m",
              "n", "o", "p", "q", "r", "s", "t", "u", "v", "w", "x", "y", "z">>
Uppers == {UpperSeq[i] : i \in DOMAIN UpperSeq}
Lowers == {LowerSeq[i] : i \in DOMAIN LowerSeq}
Letters == Uppers \cup Lowers

\* The characters the model uses, in code-point order: Python compares str
\* values code point by code point.
AsciiOrder ==
    <<"!", "#", "*", "+", "-", ".", "/">> \o
    <<"0", "1", "2", "3", "4", "5", "6", "7", "8", "9">> \o
    <<"=", "@">> \o UpperSeq \o <<"\\", "_">> \o LowerSeq \o <<"~">>

Ord(c) == CHOOSE i \in DOMAIN AsciiOrder : AsciiOrder[i] = c

\* str.lower() on one character and on a string.
LowerChar(c) ==
    IF c \in Uppers
    THEN LowerSeq[CHOOSE i \in DOMAIN UpperSeq : UpperSeq[i] = c]
    ELSE c

Lower(s) == [i \in 1..Len(s) |-> LowerChar(s[i])]

Min(a, b) == IF a < b THEN a ELSE b

\* s[i:] and s[:i] with Python's 0-based bounds.
From(s, i) == SubSeq(s, i + 1, Len(s))
Upto(s, i) == SubSeq(s, 1, Min(i, Len(s)))

\* str.startswith / str.endswith.
StartsWith(s, p) == Len(p) <= Len(s) /\ SubSeq(s, 1, Len(p)) = p
EndsWith(s, p) ==
    Len(p) <= Len(s) /\ SubSeq(s, Len(s) - Len(p) + 1, Len(s)) = p

\* Case-insensitive prefix test (re.I on a literal).
StartsWithI(s, p) == Len(p) <= Len(s) /\ Lower(SubSeq(s, 1, Len(p))) = Lower(p)

\* str < str: lexicographic on code points, a proper prefix being smaller.
StrLess(a, b) ==
    \E i \in 1..(Min(Len(a), Len(b)) + 1) :
        /\ \A j \in 1..(i - 1) : a[j] = b[j]
        /\ \/ i > Len(a) /\ i <= Len(b)
           \/ i <= Len(a) /\ i <= Len(b) /\ Ord(a[i]) < Ord(b[i])

\* tuple < tuple of strings: lexicographic, elements compared with str <.
TupleLess(a, b) ==
    \E i \in 1..(Min(Len(a), Len(b)) + 1) :
        /\ \A j \in 1..(i - 1) : a[j] = b[j]
        /\ \/ i > Len(a) /\ i <= Len(b)
           \/ i <= Len(a) /\ i <= Len(b) /\ StrLess(a[i], b[i])

-----------------------------------------------------------------------------
(* parse_version                                                           *)

\* component_re: the class of text one piece of component_re.split is made
\* of: a run of digits, a run of letters, one ".", one "-", or the text
\* between two matches.
component_re(c) ==
    IF c \in Digits THEN "digits"
    ELSE IF c \in Letters THEN "letters"
    ELSE IF c = "." THEN "dot"
    ELSE IF c = "-" THEN "dash"
    ELSE "between"

\* Length of the first piece of a non-empty string.
FirstPartLen(s) ==
    IF component_re(s[1]) \in {"dot", "dash"} THEN 1
    ELSE CHOOSE k \in 1..Len(s) :
            /\ \A i \in 1..k : component_re(s[i]) = component_re(s[1])
            /\ k = Len(s) \/ component_re(s[k + 1]) # component_re(s[1])

\* component_re.split(s) without the empty pieces (which the caller drops).
RECURSIVE SplitParts(_)
SplitParts(s) ==
    IF s = <<>> THEN <<>>
    ELSE LET k == FirstPartLen(s)
         IN  <<SubSeq(s, 1, k)>> \o SplitParts(From(s, k))

ReplaceNoCandidate(part) ==
    IF part = <<"-">> THEN <<"f", "i", "n", "a", "l", "-">>
    ELSE IF part = <<"d", "e", "v">> THEN <<"@">>
    ELSE part

\* replace = {...}.get
replace(part) ==
    IF part \in {<<"p", "r", "e">>, <<"p", "r", "e", "v", "i", "e", "w">>,
                 <<"r", "c">>}
    THEN <<"c">>
    ELSE IF part = <<"-">> THEN <<"f", "i", "n", "a", "l", "-">>
    ELSE IF part = <<"d", "e", "v">> THEN <<"@">>
    ELSE part

ZfillWidth == 8

\* str.zfill(8) of a string that starts with a digit.
zfill(s) ==
    IF Len(s) >= ZfillWidth THEN s
    ELSE [i \in 1..(ZfillWidth - Len(s)) |-> "0"] \o s

SentinelTilde == "~"

\* The marker put in front of every non-numeric part.
Sentinel == "*"

FinalPart == <<Sentinel, "f", "i", "n", "a", "l">>

\* The parts _parse_version_parts yields before the closing "*final".
RECURSIVE YieldParts(_)
YieldParts(ps) ==
    IF ps = <<>> THEN <<>>
    ELSE LET part == replace(Head(ps))
         IN  IF part \in {<<>>, <<".">>} THEN YieldParts(Tail(ps))
             ELSE IF part[1] \in Digits
                  THEN <<zfill(part)>> \o YieldParts(Tail(ps))
                  ELSE <<<<Sentinel>> \o part>> \o YieldParts(Tail(ps))

_parse_version_parts(s) == YieldParts(SplitParts(s)) \o <<FinalPart>>

\* while parts and parts[-1] == "00000000": parts.pop()
RECURSIVE PopZeros(_)
PopZeros(parts) ==
    IF parts # <<>> /\ parts[Len(parts)] = zfill(<<"0">>)
    THEN PopZeros(SubSeq(parts, 1, Len(parts) - 1))
    ELSE parts

RECURSIVE CollectParts(_, _)
CollectParts(parts, rest) ==
    IF rest = <<>> THEN parts
    ELSE LET part == Head(rest)
             kept == IF part[1] = "*" THEN PopZeros(parts) ELSE parts
         IN  CollectParts(Append(kept, part), Tail(rest))

parse_version(s) == CollectParts(<<>>, _parse_version_parts(Lower(s)))

-----------------------------------------------------------------------------
(* guess_pkgname_and_version                                               *)

\* String literals of the guesser.
DotAsc  == <<".", "a", "s", "c">>
DotWhl  == <<".", "w", "h", "l">>
DotZip  == <<".", "z", "i", "p">>
DotTarGz == <<".", "t", "a", "r", ".", "g", "z">>
DotTgz  == <<".", "t", "g", "z">>
DotTarBz2 == <<".", "t", "a", "r", ".", "b", "z", "2">>
DotEgg  == <<".", "e", "g", "g">>
DotDistInfo == <<".", "d", "i", "s", "t", "-", "i", "n", "f", "o">>
DashPy  == <<"-", "p", "y">>
DotWinAmd64Py == <<".", "w", "i", "n", "-", "a", "m", "d", "6", "4", "-", "p", "y">>
DotWin32Py == <<".", "w", "i", "n", "3", "2", "-", "p", "y">>

\* What guess_pkgname_and_version returns: None ("none"), the pair
\* (None, None) of a wheel name that fails the grammar ("none_pair"), or a
\* pair of strings ("pair").
NoMatch  == [kind |-> "none", name |-> <<>>, version |-> <<>>]
NonePair == [kind |-> "none_pair", name |-> <<>>, version |-> <<>>]
Pair(n, v) == [kind |-> "pair", name |-> n, version |-> v]

\* Positions of character c in s.
Positions(s, c) == {i \in 1..Len(s) : s[i] = c}

SetMin(S) == CHOOSE x \in S : \A y \in S : x <= y
SetMax(S) == CHOOSE x \in S : \A y \in S : x >= y

\* wheel_file_re, first alternative, from the "-" at position p on:
\* -pyver-abi-plat.whl$ with three non-empty lazy fields.
WheelTags(s, p) ==
    \E q2, q3 \in Positions(s, "-") :
        /\ q2 >= p + 2
        /\ q3 >= q2 + 2
        /\ q3 + 1 <= Len(s) - Len(DotWhl)

\* (-(?P<build>\d.*?))? taken: the build tag starts after the "-" at p.
WheelBuildEnds(s, p) ==
    {q \in Positions(s, "-") :
        /\ p + 1 <= Len(s)
        /\ s[p + 1] \in Digits
        /\ q >= p + 2
        /\ WheelTags(s, q)}

\* The "-" that may end (?P<ver>\d.*?) when the name ends before the "-" at p1.
WheelVerEnds(s, p1) ==
    {p2 \in Positions(s, "-") :
        /\ p2 >= p1 + 2
        /\ EndsWith(s, DotWhl)
        /\ WheelBuildEnds(s, p2) # {} \/ WheelTags(s, p2)}

\* wheel_file_re, second alternative: namever\.dist-info$
WheelDistInfo(s, p1) ==
    /\ EndsWith(s, DotDistInfo)
    /\ p1 + 1 <= Len(s) - Len(DotDistInfo)

\* The "-" that may end (?P<name>.+?).
WheelNameEnds(s) ==
    {p1 \in Positions(s, "-") :
        /\ p1 >= 2
        /\ p1 + 1 <= Len(s)
        /\ s[p1 + 1] \in Digits
        /\ WheelVerEnds(s, p1) # {} \/ WheelDistInfo(s, p1)}

\* wheel_file_re.match(basename) succeeds.
wheel_file_re(s) == WheelNameEnds(s) # {}

WheelAnyTags(basename) ==
    LET lastDash == Positions(basename, "-")
    IN  IF lastDash = {} \/ ~EndsWith(basename, DotWhl) THEN NonePair
        ELSE Pair(Upto(basename, SetMin(lastDash) - 1),
                  SubSeq(basename, SetMin(lastDash) + 1,
                         Len(basename) - Len(DotWhl)))

\* The lazy quantifiers take the shortest name, then the shortest version;
\* the optional build group is tried before it is left out.
_guess_pkgname_and_version_wheel(basename) ==
    IF ~wheel_file_re(basename) THEN NonePair
    ELSE LET p1 == SetMin(WheelNameEnds(basename))
             name == Upto(basename, p1 - 1)
         IN  IF WheelVerEnds(basename, p1) = {}
             THEN Pair(name, SubSeq(basename, p1 + 1,
                                    Len(basename) - Len(DotDistInfo)))
             ELSE LET p2 == SetMin(WheelVerEnds(basename, p1))
                      ver == SubSeq(basename, p1 + 1, p2 - 1)
                      ends == WheelBuildEnds(basename, p2)
                  IN  IF ends # {}
                      THEN Pair(name, ver \o <<"-">> \o
                                      SubSeq(basename, p2 + 1, SetMin(ends) - 1))
                      ELSE Pair(name, ver)

\* py[23]\.\d followed by the character sep, at 1-based position k of r.
PyVersionAt(r, k, sep) ==
    /\ Len(r) >= k + 3
    /\ r[k] \in {"2", "3"}
    /\ r[k + 1] = "."
    /\ r[k + 2] \in Digits
    /\ r[k + 3] = sep

\* One alternative of _archive_suffix_rx matches the whole of r (re.I).
ArchiveSuffix(r) ==
    \/ Lower(r) \in {DotZip, DotTarGz, DotTgz, DotTarBz2, DotEgg}
    \/ StartsWithI(r, DashPy) /\ PyVersionAt(r, Len(DashPy) + 1, "-")
    \/ StartsWithI(r, DotWinAmd64Py) /\ PyVersionAt(r, Len(DotWinAmd64Py) + 1, ".")
    \/ StartsWithI(r, DotWin32Py) /\ PyVersionAt(r, Len(DotWin32Py) + 1, ".")

\* _archive_suffix_rx.search(path): where the leftmost match starts, 0 if none.
_archive_suffix_rx(path) ==
    LET starts == {i \in 1..Len(path) : ArchiveSuffix(From(path, i - 1))}
    IN  IF starts = {} THEN 0 ELSE SetMin(starts)

\* _pkgname_re = -\d+[a-z_.!+] (re.I): where the leftmost match starts, 0 if none.
_pkgname_re(path) ==
    LET starts ==
          {i \in 1..Len(path) :
              /\ path[i] = "-"
              /\ \E k \in (i + 2)..Len(path) :
                    /\ \A j \in (i + 1)..(k - 1) : path[j] \in Digits
                    /\ path[k] \in Letters \cup {"_", ".", "!", "+"}}
    IN  IF starts = {} THEN 0 ELSE SetMin(starts)

\* The lookahead of _pkgname_parts_re matches at the start of r (re.I).
TagAhead(r) ==
    \/ \E t \in {<<"c", "p">>, <<"p", "y">>} :
          StartsWithI(r, t) /\ Len(r) >= 3 /\ r[3] \in Digits
    \/ \E t \in {<<"m", "a", "c", "o", "s", "x">>, <<"l", "i", "n", "u", "x">>,
                 <<"s", "u", "n", "o", "s">>,
                 <<"s", "o", "l", "a", "r", "i", "s">>, <<"i", "r", "i", "x">>,
                 <<"a", "i", "x">>, <<"c", "y", "g", "w", "i", "n">>,
                 <<"w", "i", "n">>} : StartsWithI(r, t)

\* _pkgname_parts_re.split(ver_spec)[0]
_pkgname_parts_re(ver_spec) ==
    LET starts == {i \in 1..Len(ver_spec) :
                     ver_spec[i] \in {".", "-"} /\ TagAhead(From(ver_spec, i))}
    IN  IF starts = {} THEN ver_spec ELSE Upto(ver_spec, SetMin(starts) - 1)

\* os.path.basename(path) on a "/"-separated path.
basename(path) ==
    LET seps == Positions(path, "/")
    IN  IF seps = {} THEN path ELSE From(path, SetMax(seps))

\* str.rstrip(chars): drops every trailing character that is in chars.
RECURSIVE rstrip(_, _)
rstrip(s, chars) ==
    IF s # <<>> /\ s[Len(s)] \in chars
    THEN rstrip(SubSeq(s, 1, Len(s) - 1), chars)
    ELSE s

\* Lines 87-88: what is done to a name that ends in ".asc".
StripAsc(path) == rstrip(path, {DotAsc[i] : i \in DOMAIN DotAsc})

\* Lines 94-105: name and version of a name whose archive suffix is gone.
SplitNameVersion(path) ==
    LET dashes == Positions(path, "-")
    IN  IF dashes = {} THEN Pair(path, <<>>)
        ELSE IF Cardinality(dashes) = 1
        THEN Pair(Upto(path, SetMin(dashes) - 1), From(path, SetMin(dashes)))
        ELSE IF Positions(path, ".") = {}
        THEN Pair(Upto(path, SetMax(dashes) - 1), From(path, SetMax(dashes)))
        ELSE LET m == _pkgname_re(path)
                 pkgname == IF m = 0 THEN path ELSE Upto(path, m - 1)
                 ver_spec == From(path, Len(pkgname) + 1)
             IN  Pair(pkgname, _pkgname_parts_re(ver_spec))

guess_pkgname_and_version(p) ==
    LET path0 == basename(p)
        path == IF EndsWith(path0, DotAsc) THEN StripAsc(path0) ELSE path0
    IN  IF EndsWith(path, DotWhl)
        THEN _guess_pkgname_and_version_wheel(path)
        ELSE LET m == _archive_suffix_rx(path)
             IN  IF m = 0 THEN NoMatch
                 ELSE SplitNameVersion(Upto(path, m - 1))

\* normalize_pkgname: re.sub(r"[-_.]+", "-", name).lower()
RECURSIVE CollapseSeparators(_)
CollapseSeparators(s) ==
    IF s = <<>> THEN <<>>
    ELSE IF s[1] \in {"-", "_", "."}
    THEN <<"-">> \o CollapseSeparators(
                       From(s, CHOOSE k \in 1..Len(s) :
                               /\ \A i \in 1..k : s[i] \in {"-", "_", "."}
                               /\ k = Len(s) \/ s[k + 1] \notin {"-", "_", "."}))
    ELSE <<s[1]>> \o CollapseSeparators(Tail(s))

normalize_pkgname(name) == Lower(CollapseSeparators(name))

\* is_allowed_path on a name or a "/"- or "\"-separated path.
AllowAnyPath(path_part) == TRUE

is_allowed_path(path_part) ==
    LET p == [i \in 1..Len(path_part) |->
                 IF path_part[i] = "\\" THEN "/" ELSE path_part[i]]
    IN  ~(\/ StartsWith(p, <<".">>)
          \/ \E i \in 1..(Len(p) - 1) : p[i] = "/" /\ p[i + 1] = ".")

-----------------------------------------------------------------------------
(* PkgFile                                                                 *)

PkgFileKeepsSeparators(pkgname, version, fn, root, relfn) ==
    [pkgname |-> pkgname, pkgname_norm |-> normalize_pkgname(pkgname),
     version |-> version, parsed_version |-> parse_version(version),
     fn |-> fn, root |-> root, relfn |-> relfn, relfn_unix |-> relfn,
     replaces |-> None]

\* PkgFile.__init__
PkgFile(pkgname, version, fn, root, relfn) ==
    [pkgname |-> pkgname, pkgname_norm |-> normalize_pkgname(pkgname),
     version |-> version, parsed_version |-> parse_version(version),
     fn |-> fn, root |-> root, relfn |-> relfn,
     relfn_unix |-> [i \in 1..Len(relfn) |->
                        IF relfn[i] = "\\" THEN "/" ELSE relfn[i]],
     replaces |-> None]

\* The root directory of the index, an absolute path.
Root == <<"/", "r">>

\* Segments joined with a separator.
RECURSIVE JoinWith(_, _)
JoinWith(segs, sep) ==
    IF segs = <<>> THEN <<>>
    ELSE IF Len(segs) = 1 THEN segs[1]
    ELSE segs[1] \o <<sep>> \o JoinWith(Tail(segs), sep)

\* A string cut at every "/".
RECURSIVE Segments(_)
Segments(path) ==
    LET seps == Positions(path, "/")
    IN  IF seps = {} THEN <<path>>
        ELSE <<Upto(path, SetMin(seps) - 1)>> \o Segments(From(path, SetMin(seps)))

\* A set as a sequence, in the order the directory listing gives it.
RECURSIVE SetToSeq(_)
SetToSeq(S) ==
    IF S = {} THEN <<>>
    ELSE LET x == CHOOSE y \in S : TRUE
         IN  <<x>> \o SetToSeq(S \ {x})

-----------------------------------------------------------------------------
(* Bounds                                                                  *)

\* Dotted segments of a release prefix.
MaxSegments == 3
\* Suffix pieces appended to a stem to form a file name.
MaxSuffixes == 2
\* Calls of fname_and_hash on one record.
MaxCalls == 3
\* Files in a scanned tree.
MaxFiles == 2
\* Concurrent callers of the facade.
NumCallers == 3

-----------------------------------------------------------------------------
(* Values of the variables of the components a specification leaves alone. *)

NotParsed == <<>>
NotGuessed == [kind |-> "pending", name |-> <<>>, version |-> <<>>]
Unset == [set |-> FALSE, value |-> <<>>]

IdleVer ==
    /\ vPrefix = <<>> /\ vMarker = <<>> /\ vNum = <<>>
    /\ vKeyPlain = NotParsed /\ vKeyMarked = NotParsed /\ vKeyZero = NotParsed

IdleGuess == gName = <<>> /\ gPlain = NotGuessed /\ gAsc = NotGuessed

IdleHash ==
    /\ hSep = "/" /\ hSegs = <<>> /\ hPkg = PkgFile(<<>>, <<>>, <<>>, <<>>, <<>>)
    /\ hMemo = Unset /\ hContent = "a" /\ hDigestCalls = 0 /\ hCalls = 0
    /\ hLastAlgo = <<>> /\ hLastRet = <<>> /\ hLastOutcome = "none"

IdleScan ==
    /\ sRootOk = TRUE /\ sFiles = {} /\ sIrregular = {} /\ sStack = <<>>
    /\ sEntered = {} /\ sRecords = <<>> /\ sStatus = "done"

IdleCache ==
    /\ cCache = FALSE /\ cKey = <<>> /\ cPc = <<>> /\ cResult = <<>>
    /\ cInvocations = <<>> /\ cStore = <<>> /\ cInflight = <<>>

-----------------------------------------------------------------------------
(* parse_version applied to release prefixes and their marked variants      *)

SegmentPool == {<<"0">>, <<"1">>, <<"1", "0">>}

RECURSIVE DottedPrefixes(_)
DottedPrefixes(n) ==
    IF n = 1 THEN SegmentPool
    ELSE {p \o <<".">> \o seg : p \in DottedPrefixes(n - 1), seg \in SegmentPool}

ReleasePrefixes == UNION {DottedPrefixes(n) : n \in 1..MaxSegments}

PreMarkers == {<<"r", "c">>, <<"p", "r", "e">>,
               <<"p", "r", "e", "v", "i", "e", "w">>, <<"d", "e", "v">>}
DotPost == <<".", "p", "o", "s", "t">>
MarkerPool == PreMarkers \cup {DotPost, <<"R", "C">>, <<"-">>}
NumberPool == {<<>>, <<"0">>, <<"1">>, <<"1", "2">>}

InitVer ==
    /\ vPrefix \in ReleasePrefixes
    /\ vMarker \in MarkerPool
    /\ vNum \in NumberPool
    /\ vKeyPlain = NotParsed /\ vKeyMarked = NotParsed /\ vKeyZero = NotParsed
    /\ IdleGuess /\ IdleHash /\ IdleScan /\ IdleCache

ParsePlain ==
    /\ vKeyPlain = NotParsed
    /\ vKeyPlain' = parse_version(vPrefix)
    /\ UNCHANGED <<vPrefix, vMarker, vNum, vKeyMarked, vKeyZero>>
    /\ UNCHANGED <<guessVars, hashVars, scanVars, cacheVars>>

ParseMarked ==
    /\ vKeyMarked = NotParsed
    /\ vKeyMarked' = parse_version(vPrefix \o vMarker \o vNum)
    /\ UNCHANGED <<vPrefix, vMarker, vNum, vKeyPlain, vKeyZero>>
    /\ UNCHANGED <<guessVars, hashVars, scanVars, cacheVars>>

ParseZeroExtended ==
    /\ vKeyZero = NotParsed
    /\ vKeyZero' = parse_version(vPrefix \o <<".", "0">>)
    /\ UNCHANGED <<vPrefix, vMarker, vNum, vKeyPlain, vKeyMarked>>
    /\ UNCHANGED <<guessVars, hashVars, scanVars, cacheVars>>

NextVer == ParsePlain \/ ParseMarked \/ ParseZeroExtended

SpecVer == InitVer /\ [][NextVer]_vars

-----------------------------------------------------------------------------
(* guess_pkgname_and_version applied to file names                          *)

StemPool == {<<"p", "k", "g", "-", "1", ".", "0">>,
             <<"p", "k", "g", "A">>,
             <<"p", "k", "g", "-", "1", ".", "0", "-", "p", "y", "3", "-",
               "n", "o", "n", "e", "-", "a", "n", "y">>,
             <<"f", "o", "o", "-", "1", ".", "0", ".", "w", "i", "n", "3", "2",
               "-", "p", "y", "2", ".", "7", ".", "x">>}
SuffixPool == {DotZip, DotTarGz, DotWhl, DotAsc, <<"s">>, <<".", "t", "x", "t">>}

RECURSIVE SuffixRuns(_)
SuffixRuns(n) ==
    IF n = 0 THEN {<<>>}
    ELSE {r \o x : r \in SuffixRuns(n - 1), x \in SuffixPool}

GuessNames ==
    {stem \o r : stem \in StemPool, r \in UNION {SuffixRuns(n) : n \in 0..MaxSuffixes}}

InitGuess ==
    /\ gName \in GuessNames
    /\ gPlain = NotGuessed /\ gAsc = NotGuessed
    /\ IdleVer /\ IdleHash /\ IdleScan /\ IdleCache

GuessPlain ==
    /\ gPlain = NotGuessed
    /\ gPlain' = guess_pkgname_and_version(gName)
    /\ UNCHANGED <<gName, gAsc>>
    /\ UNCHANGED <<verVars, hashVars, scanVars, cacheVars>>

GuessSigned ==
    /\ gAsc = NotGuessed
    /\ gAsc' = guess_pkgname_and_version(gName \o DotAsc)
    /\ UNCHANGED <<gName, gPlain>>
    /\ UNCHANGED <<verVars, hashVars, scanVars, cacheVars>>

NextGuess == GuessPlain \/ GuessSigned

SpecGuess == InitGuess /\ [][NextGuess]_vars

-----------------------------------------------------------------------------
(* Properties of parse_version (SpecVer)                                    *)

\* A key token is numeric when it starts with a digit; every other token
\* carries the sentinel prefix.
IsNumericToken(t) == t # <<>> /\ t[1] \in Digits

ParsedKeys == {vKeyPlain, vKeyMarked, vKeyZero} \ {NotParsed}

KeyTokens == UNION {{k[i] : i \in DOMAIN k} : k \in ParsedKeys}

\* C8: for a dotted numeric release prefix V and a number n, the key of V
\* followed by a pre-release marker (rc, pre, preview, dev) and n is strictly
\* below the key of V, the key of V is strictly below the key of V.post n,
\* and V and V.0 have the same key.
C8_PreFinalPostOrder ==
    /\ (vKeyPlain # NotParsed /\ vKeyMarked # NotParsed) =>
          /\ vMarker \in PreMarkers => TupleLess(vKeyMarked, vKeyPlain)
          /\ vMarker = DotPost => TupleLess(vKeyPlain, vKeyMarked)
    /\ (vKeyPlain # NotParsed /\ vKeyZero # NotParsed) => vKeyPlain = vKeyZero

\* The case of C8 happens: 1.0rc1, 1.0 and 1.0.0 have all been parsed.
C8_Witness ==
    /\ vPrefix = <<"1", ".", "0">> /\ vMarker = <<"r", "c">> /\ vNum = <<"1">>
    /\ vKeyPlain = <<zfill(<<"1">>), FinalPart>>
    /\ vKeyMarked = <<zfill(<<"1">>), <<"*", "c">>, zfill(<<"1">>), FinalPart>>
    /\ vKeyZero = vKeyPlain

\* C10 as stated: in the keys parse_version builds, every sentinel-marked
\* token compares greater than every numeric token.
C10_SentinelAfterNumeric ==
    \A s \in KeyTokens, n \in KeyTokens :
        (~IsNumericToken(s) /\ IsNumericToken(n)) => StrLess(n, s)

\* C10 amended: in the keys parse_version builds, every sentinel-marked
\* token (the closing "*final" included) compares smaller than every numeric
\* token, so at a tuple position a sentinel-marked token sorts before a
\* numeric one.
C10_SentinelBeforeNumeric ==
    \A s \in KeyTokens, n \in KeyTokens :
        (~IsNumericToken(s) /\ IsNumericToken(n)) => StrLess(s, n)

\* The case of C10 happens: a built key holds a numeric token and, besides
\* "*final", a sentinel-marked token.
C10_Witness ==
    /\ vKeyMarked # NotParsed
    /\ \E i, j \in DOMAIN vKeyMarked :
          /\ IsNumericToken(vKeyMarked[i])
          /\ ~IsNumericToken(vKeyMarked[j])
          /\ vKeyMarked[j] # FinalPart

-----------------------------------------------------------------------------
(* Properties of guess_pkgname_and_version (SpecGuess)                      *)

\* f with one trailing ".asc" removed, if it has one.
InnerName(f) == IF EndsWith(f, DotAsc) THEN Upto(f, Len(f) - Len(DotAsc)) ELSE f

\* The name is a wheel name that matches the wheel grammar, or ends in an
\* archive suffix of the allow-list.
Recognised(f) ==
    \/ EndsWith(f, DotWhl) /\ wheel_file_re(f)
    \/ _archive_suffix_rx(f) # 0

HasName(res) == res.kind = "pair" /\ res.name # <<>>

\* C6: a file name that, with one optional trailing ".asc" removed, neither
\* matches the wheel grammar nor ends in an allow-listed archive suffix, is
\* given no non-empty package name.
C6_NoFalsePositive ==
    /\ (gPlain # NotGuessed /\ ~Recognised(InnerName(gName))) => ~HasName(gPlain)
    /\ (gAsc # NotGuessed /\ ~Recognised(InnerName(gName \o DotAsc))) =>
          ~HasName(gAsc)

\* C7: the guess for f followed by ".asc" is the guess for f.
C7_SignatureSameOutcome ==
    (gPlain # NotGuessed /\ gAsc # NotGuessed) => gAsc = gPlain

-----------------------------------------------------------------------------
(* PkgFile.fname_and_hash called repeatedly on one record (SpecHash)        *)

Md5 == <<"m", "d", "5">>
Sha256 == <<"s", "h", "a", "2", "5", "6">>
AlgoPool == {<<>>, Md5, Sha256}
ContentPool == {"a", "b"}

PkgATarGz == <<"p", "k", "g", "A", "-", "1", ".", "0">> \o DotTarGz
SubDir == <<"s", "u", "b">>

\* _digest_file: the hex digest, abstracted to a value that differs for
\* different file contents and for different algorithms.
_digest_file(content, hash_algo) == <<content, hash_algo[Len(hash_algo)]>>

\* The record _listdir builds for the file at the relative segments segs on
\* a host whose path separator is sep.
RecordAt(segs, sep) ==
    LET x == segs[Len(segs)]
        res == guess_pkgname_and_version(x)
        root == <<sep, "r">>
        relfn == JoinWith(segs, sep)
    IN  PkgFile(res.name, res.version, root \o <<sep>> \o relfn, root, relfn)

InitHash ==
    /\ hSep \in {"/", "\\"}
    /\ hSegs \in {<<PkgATarGz>>, <<SubDir, PkgATarGz>>}
    /\ hPkg = RecordAt(hSegs, hSep)
    /\ hMemo = Unset
    /\ hContent \in ContentPool
    /\ hDigestCalls = 0 /\ hCalls = 0
    /\ hLastAlgo = <<>> /\ hLastRet = <<>> /\ hLastOutcome = "none"
    /\ IdleVer /\ IdleGuess /\ IdleScan /\ IdleCache

\* f"{self.relfn_unix}#{hash_algo}={digest_file(self.fn, hash_algo)}"
Fragment(pkg, hash_algo, content) ==
    pkg.relfn_unix \o <<"#">> \o hash_algo \o <<"=">> \o
    _digest_file(content, hash_algo)

FnameAndHashNoMemo(hash_algo, readable) ==
    /\ hCalls < MaxCalls
    /\ hCalls' = hCalls + 1
    /\ hLastAlgo' = hash_algo
    /\ IF hash_algo # <<>>
       THEN /\ hDigestCalls' = hDigestCalls + 1
            /\ IF readable
               THEN /\ hMemo' = [set |-> TRUE,
                                 value |-> Fragment(hPkg, hash_algo, hContent)]
                    /\ hLastRet' = hMemo'.value
                    /\ hLastOutcome' = "returned"
               ELSE /\ hLastRet' = <<>>
                    /\ hLastOutcome' = "raised"
                    /\ UNCHANGED hMemo
       ELSE /\ hMemo' = [set |-> TRUE, value |-> hPkg.relfn_unix]
            /\ hLastRet' = hMemo'.value
            /\ hLastOutcome' = "returned"
            /\ UNCHANGED hDigestCalls
    /\ UNCHANGED <<hSep, hSegs, hPkg, hContent>>
    /\ UNCHANGED <<verVars, guessVars, scanVars, cacheVars>>

\* PkgFile.fname_and_hash(hash_algo); readable tells whether digest_file can
\* read the file (it raises otherwise, and nothing is stored).
FnameAndHash(hash_algo, readable) ==
    /\ hCalls < MaxCalls
    /\ hCalls' = hCalls + 1
    /\ hLastAlgo' = hash_algo
    /\ IF ~hMemo.set
       THEN IF hash_algo # <<>>
            THEN /\ hDigestCalls' = hDigestCalls + 1
                 /\ IF readable
                    THEN /\ hMemo' = [set |-> TRUE,
                                      value |-> Fragment(hPkg, hash_algo, hContent)]
                         /\ hLastRet' = hMemo'.value
                         /\ hLastOutcome' = "returned"
                    ELSE /\ hLastRet' = <<>>
                         /\ hLastOutcome' = "raised"
                         /\ UNCHANGED hMemo
            ELSE /\ hMemo' = [set |-> TRUE, value |-> hPkg.relfn_unix]
                 /\ hLastRet' = hMemo'.value
                 /\ hLastOutcome' = "returned"
                 /\ UNCHANGED hDigestCalls
       ELSE /\ hLastRet' = hMemo.value
            /\ hLastOutcome' = "returned"
            /\ UNCHANGED <<hMemo, hDigestCalls>>
    /\ UNCHANGED <<hSep, hSegs, hPkg, hContent>>
    /\ UNCHANGED <<verVars, guessVars, scanVars, cacheVars>>

\* The file is rewritten between two calls.
ModifyFile ==
    /\ hCalls < MaxCalls
    /\ hContent' \in ContentPool \ {hContent}
    /\ UNCHANGED <<hSep, hSegs, hPkg, hMemo, hDigestCalls, hCalls, hLastAlgo,
                   hLastRet, hLastOutcome>>
    /\ UNCHANGED <<verVars, guessVars, scanVars, cacheVars>>

NextHash ==
    \/ \E hash_algo \in AlgoPool, readable \in BOOLEAN :
          FnameAndHash(hash_algo, readable)
    \/ ModifyFile

SpecHash == InitHash /\ [][NextHash]_vars

\* The path of the record relative to the root, with forward slashes.
UnixRelPath == JoinWith(hSegs, "/")

\* What a call with hash_algo returns when it computes the value itself.
ComputedFor(hash_algo, content) ==
    IF hash_algo = <<>> THEN UnixRelPath
    ELSE UnixRelPath \o <<"#">> \o hash_algo \o <<"=">> \o
         _digest_file(content, hash_algo)

\* C2: once a call of fname_and_hash has stored the value, the stored value
\* never changes, digest_file is not invoked again, and every later call
\* returns the stored value, whatever algorithm it passes.
C2_MemoisedOnce ==
    [][hMemo.set =>
          /\ hMemo' = hMemo
          /\ hDigestCalls' = hDigestCalls
          /\ hCalls' # hCalls =>
                (hLastOutcome' = "returned" /\ hLastRet' = hMemo.value)]_vars

\* The case of C2 happens: the value was computed for sha256, and a later
\* call with md5 has returned it.
C2_Witness ==
    /\ hCalls >= 2
    /\ hMemo.set
    /\ \E c \in ContentPool : hMemo.value = ComputedFor(Sha256, c)
    /\ hLastAlgo = Md5
    /\ hLastOutcome = "returned"
    /\ hLastRet = hMemo.value

\* C3 as stated: every call with an empty hash_algo returns the bare
\* forward-slash relative path, and every call with a non-empty hash_algo
\* returns the path followed by "#<hash_algo>=<digest>" for that algorithm.
C3_EachCallByItsAlgorithm ==
    hLastOutcome = "returned" =>
        \E c \in ContentPool : hLastRet = ComputedFor(hLastAlgo, c)

\* C3 amended: the first call that completes returns the bare forward-slash
\* relative path when its hash_algo is empty and the path followed by
\* "#<hash_algo>=<digest>" otherwise; every later call returns the value of
\* that first call, whatever hash_algo it passes.
C3_FirstCallFixesForm ==
    [][(hCalls' # hCalls /\ hLastOutcome' = "returned") =>
          hLastRet' = IF hMemo.set THEN hMemo.value
                      ELSE ComputedFor(hLastAlgo', hContent)]_vars

\* The case of C3 happens: on a host with "\" as separator, a call with an
\* empty hash_algo has returned the value an earlier sha256 call stored.
C3_Witness ==
    /\ hSep = "\\"
    /\ Len(hSegs) = 2
    /\ hCalls >= 2
    /\ hLastAlgo = <<>>
    /\ hLastOutcome = "returned"
    /\ \E c \in ContentPool : hLastRet = ComputedFor(Sha256, c)

-----------------------------------------------------------------------------
(* _listdir walking a directory tree (SpecScan)                             *)

\* A tree is the set of its files, each the sequence of names from the root
\* down to the file; the directories are the proper prefixes of the files.
HiddenDir == <<".", "h", "i", "d", "d", "e", "n">>
PkgAWhl == <<"p", "k", "g", "A", "-", "1", ".", "0">> \o DotWhl
PkgBTarGz == <<"p", "k", "g", "B", "-", "2", ".", "0">> \o DotTarGz
DotPkgBTarGz == <<".">> \o PkgBTarGz
NotesTxt == <<"n", "o", "t", "e", "s", ".", "t", "x", "t">>
PkgAWheel == <<"p", "k", "g", "A", "-", "1", ".", "0", "-", "p", "y", "3", "-",
               "n", "o", "n", "e", "-", "a", "n", "y">> \o DotWhl
\* A POSIX file name that holds a backslash followed by ".".
PkBackslashZip == <<"p", "k", "\\", ".", "g", "-", "1", ".", "0">> \o DotZip

\* The root of the end-to-end example.
ExampleTree ==
    {<<PkgATarGz>>, <<PkgAWhl>>, <<HiddenDir, PkgBTarGz>>, <<NotesTxt>>}

DirPool == {<<>>, <<SubDir>>, <<HiddenDir>>, <<SubDir, HiddenDir>>,
            <<HiddenDir, SubDir>>}
FilePool == {PkgATarGz, PkgBTarGz, DotPkgBTarGz, NotesTxt, PkgAWheel,
             PkBackslashZip}
PathPool == {d \o <<x>> : d \in DirPool, x \in FilePool}

\* A file and a directory cannot share a path.
IsTree(files) ==
    \A p, q \in files : ~(Len(p) < Len(q) /\ SubSeq(q, 1, Len(p)) = p)

\* The sets of at most n paths of the pool.
RECURSIVE PathSets(_)
PathSets(n) ==
    IF n = 0 THEN {{}}
    ELSE PathSets(n - 1) \cup
         {files \cup {p} : files \in PathSets(n - 1), p \in PathPool}

Trees == {ExampleTree} \cup {files \in PathSets(MaxFiles) : IsTree(files)}

InitScan ==
    /\ sRootOk \in BOOLEAN
    /\ sFiles \in Trees
    /\ sIrregular \in {irr \in SUBSET sFiles : Cardinality(irr) <= 1}
    /\ sStack = <<<<>>>>
    /\ sEntered = {}
    /\ sRecords = <<>>
    /\ sStatus = "walking"
    /\ IdleVer /\ IdleGuess /\ IdleHash /\ IdleCache

\* The names os.walk lists in directory d: subdirectories and other entries.
DirNames(d) ==
    {p[Len(d) + 1] : p \in {q \in sFiles :
        Len(q) > Len(d) + 1 /\ SubSeq(q, 1, Len(d)) = d}}
FileNames(d) ==
    {p[Len(d) + 1] : p \in {q \in sFiles :
        Len(q) = Len(d) + 1 /\ SubSeq(q, 1, Len(d)) = d}}

\* os.walk's dirpath for the directory d below the root.
DirPath(d) == IF d = <<>> THEN Root ELSE Root \o <<"/">> \o JoinWith(d, "/")

\* os.path.join(root, dirpath, x): an absolute dirpath discards the root.
os_path_join(root, dirpath, x) ==
    IF StartsWith(dirpath, <<"/">>) THEN dirpath \o <<"/">> \o x
    ELSE root \o <<"/">> \o dirpath \o <<"/">> \o x

\* os.path.isfile(fn) for the entry x of directory d.
os_path_isfile(d, x) == (d \o <<x>>) \notin sIrregular

\* Lines 178-194: the records yielded for the entries xs of directory d.
RECURSIVE YieldRecords(_, _)
YieldRecords(d, xs) ==
    IF xs = <<>> THEN <<>>
    ELSE LET x == Head(xs)
             fn == os_path_join(Root, DirPath(d), x)
             res == guess_pkgname_and_version(x)
         IN  IF ~is_allowed_path(x) \/ ~os_path_isfile(d, x)
             THEN YieldRecords(d, Tail(xs))
             ELSE IF res.kind = "none" THEN YieldRecords(d, Tail(xs))
             ELSE IF res.kind = "pair" /\ res.name # <<>>
             THEN <<PkgFile(res.name, res.version, fn, Root,
                            From(fn, Len(Root) + 1))>> \o
                  YieldRecords(d, Tail(xs))
             ELSE YieldRecords(d, Tail(xs))

\* os.walk(root) is called without onerror: a directory that cannot be
\* listed is passed over.
walk_onerror == None

\* One iteration of the loop over os.walk: the directory on top of the stack
\* is listed, its subdirectories are pruned, its files are classified.
WalkDirectory ==
    /\ sStatus = "walking"
    /\ sStack # <<>>
    /\ LET d == sStack[Len(sStack)]
           rest == SubSeq(sStack, 1, Len(sStack) - 1)
       IN  IF d = <<>> /\ ~sRootOk
           THEN /\ sStatus' = IF walk_onerror = None THEN sStatus ELSE "raised"
                /\ sStack' = rest
                /\ UNCHANGED <<sEntered, sRecords>>
           ELSE LET dirnames == {x \in DirNames(d) : is_allowed_path(x)}
                IN  /\ sEntered' = sEntered \cup {d}
                    /\ sRecords' = sRecords \o
                                   YieldRecords(d, SetToSeq(FileNames(d)))
                    /\ sStack' = rest \o SetToSeq({d \o <<x>> : x \in dirnames})
                    /\ UNCHANGED sStatus
    /\ UNCHANGED <<sRootOk, sFiles, sIrregular>>
    /\ UNCHANGED <<verVars, guessVars, hashVars, cacheVars>>

\* os.walk is exhausted: the generator returns.
WalkDone ==
    /\ sStatus = "walking"
    /\ sStack = <<>>
    /\ sStatus' = "done"
    /\ UNCHANGED <<sRootOk, sFiles, sIrregular, sStack, sEntered, sRecords>>
    /\ UNCHANGED <<verVars, guessVars, hashVars, cacheVars>>

NextScan == WalkDirectory \/ WalkDone

SpecScan == InitScan /\ [][NextScan]_vars

\* get_prefixes
get_prefixes(pkgs) ==
    {pkgs[i].pkgname_norm : i \in {j \in DOMAIN pkgs : pkgs[j].pkgname # <<>>}}

Pkga == <<"p", "k", "g", "a">>

\* A name starts with ".".
IsHidden(x) == StartsWith(x, <<".">>)

\* The regular files whose path below the root has no segment starting
\* with "." and whose name is given a non-empty package name.
VisibleRecognised ==
    {p \in sFiles :
        /\ p \notin sIrregular
        /\ \A i \in DOMAIN p : ~IsHidden(p[i])
        /\ HasName(guess_pkgname_and_version(p[Len(p)]))}

\* A name that does not start with "." and has no "." right after a "/" or
\* a "\".
NameAllowed(x) ==
    /\ ~IsHidden(x)
    /\ \A i \in 1..(Len(x) - 1) : ~(x[i] \in {"/", "\\"} /\ x[i + 1] = ".")

\* The files a scan indexes: in a root that can be listed, the regular files
\* with only allowed names on their path and a non-empty package name.
Indexable ==
    {p \in sFiles :
        /\ sRootOk
        /\ p \notin sIrregular
        /\ \A i \in DOMAIN p : NameAllowed(p[i])
        /\ HasName(guess_pkgname_and_version(p[Len(p)]))}

ScanFinished == sStatus = "done" /\ sRootOk

IsExample == sFiles = ExampleTree /\ sIrregular = {}

C4_OneRecordPerVisibleFile ==
    ScanFinished =>
        /\ {sRecords[i].relfn : i \in DOMAIN sRecords} =
              {JoinWith(p, "/") : p \in VisibleRecognised}
        /\ Len(sRecords) = Cardinality(VisibleRecognised)

C5_HiddenNeverEntered ==
    /\ \A d \in sEntered : \A i \in DOMAIN d : ~IsHidden(d[i])
    /\ \A i \in DOMAIN sRecords :
          \A seg \in {Segments(sRecords[i].relfn)[k] :
                        k \in DOMAIN Segments(sRecords[i].relfn)} : ~IsHidden(seg)

\* The case of C5 happens: a tree with a package file below a hidden
\* directory and a hidden package file has been scanned to the end, and
\* another file of it was indexed.
C5_Witness ==
    /\ ScanFinished
    /\ <<SubDir, HiddenDir, PkgATarGz>> \in sFiles \ sIrregular
    /\ Len(sRecords) = 1
    /\ sEntered = {<<>>, <<SubDir>>}

\* C9: when the root cannot be listed the scan does not complete normally:
\* it ends with the filesystem error raised to the caller.
C9_RootErrorPropagates == ~sRootOk => sStatus # "done"

-----------------------------------------------------------------------------
(* listdir / digest_file called by concurrent callers (SpecCache)           *)

Callers == 1..NumCallers

\* What a call is about: a root for listdir, a file and an algorithm for
\* digest_file.
Keys == {"listdir:/r", "digest_file:/r/pkgA-1.0.tar.gz:sha256"}

\* A result is named by the invocation of the fallback (_listdir or
\* _digest_file) that computed it: <<key, ordinal of the invocation>>.
NoResult == <<"", 0>>

InitCache ==
    /\ cCache \in BOOLEAN
    /\ cKey \in [Callers -> Keys]
    /\ cPc = [c \in Callers |-> "idle"]
    /\ cResult = [c \in Callers |-> NoResult]
    /\ cInvocations = [k \in Keys |-> 0]
    /\ cStore = [k \in Keys |-> NoResult]
    /\ cInflight = [k \in Keys |-> FALSE]
    /\ IdleVer /\ IdleGuess /\ IdleHash /\ IdleScan

CallDirectSkipsFallback(c) ==
    /\ ~cCache
    /\ cPc[c] = "idle"
    /\ cResult' = [cResult EXCEPT ![c] = <<cKey[c], 1>>]
    /\ cPc' = [cPc EXCEPT ![c] = "computing"]
    /\ UNCHANGED <<cCache, cKey, cInvocations, cStore, cInflight>>
    /\ UNCHANGED <<verVars, guessVars, hashVars, scanVars>>

\* Lines 265-267, "listdir = _listdir; digest_file = _digest_file": without
\* the cache module a call is a call of the fallback itself.
CallDirect(c) ==
    /\ ~cCache
    /\ cPc[c] = "idle"
    /\ cInvocations' = [cInvocations EXCEPT ![cKey[c]] = @ + 1]
    /\ cResult' = [cResult EXCEPT ![c] = <<cKey[c], cInvocations'[cKey[c]]>>]
    /\ cPc' = [cPc EXCEPT ![c] = "computing"]
    /\ UNCHANGED <<cCache, cKey, cStore, cInflight>>
    /\ UNCHANGED <<verVars, guessVars, hashVars, scanVars>>

\* The fallback called directly returns to its caller.
ReturnDirect(c) ==
    /\ ~cCache
    /\ cPc[c] = "computing"
    /\ cPc' = [cPc EXCEPT ![c] = "done"]
    /\ UNCHANGED <<cCache, cKey, cResult, cInvocations, cStore, cInflight>>
    /\ UNCHANGED <<verVars, guessVars, hashVars, scanVars>>

\* Lines 256-262: with the cache module, listdir and digest_file hand the key
\* and the fallback to cache_manager.  An entry that is stored is served; an
\* entry being populated is waited for; otherwise this caller populates it.
CallCached(c) ==
    /\ cCache
    /\ cPc[c] = "idle"
    /\ LET k == cKey[c]
       IN  IF cStore[k] # NoResult
           THEN /\ cResult' = [cResult EXCEPT ![c] = cStore[k]]
                /\ cPc' = [cPc EXCEPT ![c] = "done"]
                /\ UNCHANGED <<cInvocations, cInflight>>
           ELSE IF cInflight[k]
           THEN /\ cPc' = [cPc EXCEPT ![c] = "waiting"]
                /\ UNCHANGED <<cResult, cInvocations, cInflight>>
           ELSE /\ cInflight' = [cInflight EXCEPT ![k] = TRUE]
                /\ cInvocations' = [cInvocations EXCEPT ![k] = @ + 1]
                /\ cPc' = [cPc EXCEPT ![c] = "computing"]
                /\ UNCHANGED cResult
    /\ UNCHANGED <<cCache, cKey, cStore>>
    /\ UNCHANGED <<verVars, guessVars, hashVars, scanVars>>

\* cache_manager: the populating caller stores the fallback's result.
Populate(c) ==
    /\ cCache
    /\ cPc[c] = "computing"
    /\ LET k == cKey[c]
       IN  /\ cStore' = [cStore EXCEPT ![k] = <<k, cInvocations[k]>>]
           /\ cInflight' = [cInflight EXCEPT ![k] = FALSE]
           /\ cResult' = [cResult EXCEPT ![c] = <<k, cInvocations[k]>>]
    /\ cPc' = [cPc EXCEPT ![c] = "done"]
    /\ UNCHANGED <<cCache, cKey, cInvocations>>
    /\ UNCHANGED <<verVars, guessVars, hashVars, scanVars>>

\* cache_manager: a caller that waited is served the stored entry.
ServeWaiting(c) ==
    /\ cCache
    /\ cPc[c] = "waiting"
    /\ cStore[cKey[c]] # NoResult
    /\ cResult' = [cResult EXCEPT ![c] = cStore[cKey[c]]]
    /\ cPc' = [cPc EXCEPT ![c] = "done"]
    /\ UNCHANGED <<cCache, cKey, cInvocations, cStore, cInflight>>
    /\ UNCHANGED <<verVars, guessVars, hashVars, scanVars>>

NextCache ==
    \E c \in Callers :
        \/ CallDirect(c)
        \/ ReturnDirect(c)
        \/ CallCached(c)
        \/ Populate(c)
        \/ ServeWaiting(c)

SpecCache == InitCache /\ [][NextCache]_vars

\* The callers that have asked for key k, and those that have their result.
Asked(k) == {c \in Callers : cKey[c] = k /\ cPc[c] # "idle"}
Served(k) == {c \in Callers : cKey[c] = k /\ cPc[c] = "done"}

\* Callers of k were served one invocation's result, the fallback having
\* been invoked exactly once.
SingleFlight(k) ==
    Asked(k) # {} =>
        /\ cInvocations[k] = 1
        /\ \A c \in Served(k) : cResult[c] = <<k, 1>>

\* C1 as stated: in every configuration, the one without the cache module
\* included, concurrent callers of an entry not yet populated cause exactly
\* one invocation of the fallback and all receive its result.
C1_SingleFlightEveryConfiguration == \A k \in Keys : SingleFlight(k)

\* C1 amended: with the cache module configured the fallback is invoked
\* exactly once per key and all callers receive that one result; without it
\* every call invokes the fallback itself, so N callers of a key cause N
\* invocations and each receives the result of its own.
C1_SingleFlightOnlyWithCache ==
    \A k \in Keys :
        /\ cCache => SingleFlight(k)
        /\ ~cCache =>
              /\ cInvocations[k] = Cardinality(Asked(k))
              /\ \A c, d \in Asked(k) : c # d => cResult[c] # cResult[d]

\* The case of C1 happens: without the cache module, two callers are inside
\* the fallback for the same key at the same time.
C1_Witness ==
    \E k \in Keys : \E c, d \in Asked(k) :
        /\ c # d
        /\ ~cCache
        /\ cPc[c] = "computing" /\ cPc[d] = "computing"
        /\ cInvocations[k] = 2

====
